---- MODULE Spec2Model ----
(***************************************************************************)
(* LocalDockerRunner (tfx/components/infra_validator/model_server_runners/ *)
(* local_docker_runner.py): one runner driving one container through      *)
(* Start / WaitUntilRunning / GetEndpoint / Stop against a docker engine   *)
(* whose answers (run, reload, stop) are inputs of the model.              *)
(*                                                                         *)
(* Time is counted in ticks; one second is TicksPerSec ticks, so that      *)
(* deadlines and start times need not be whole multiples of the polling    *)
(* interval.  The clock is read at the loop head only, so the time a       *)
(* reload takes is counted with the sleep that follows it.                 *)
(***************************************************************************)
EXTENDS Integers, Sequences, FiniteSets, TLC

\* ---- bounds of the model ------------------------------------------------
TicksPerSec == 2
MaxDeadline == 6
MaxStartTime == 1
MaxJitter == 1
MaxRunCalls == 2
MaxStopCalls == 2
MaxBindings == 2

\* ---- program constants --------------------------------------------------
_POLLING_INTERVAL_SEC == 1

\* ---- Python values ------------------------------------------------------
None == "None"

PyNone == [kind |-> "None"]

PyList(items) == [kind |-> "list", items |-> items]

\* truth value of a dict entry as tested by `if mappings := ...`
Truthy(v) == v.kind = "list" /\ Len(v.items) > 0

\* dict.get(key): the value, or None when the key is absent
DictGet(d, key) == IF key \in DOMAIN d THEN d[key] ELSE PyNone

Binding(hostPort) == [HostIp |-> "0.0.0.0", HostPort |-> hostPort]

PortKey(container_port) == ToString(container_port) \o "/tcp"

\* ---- docker engine vocabulary ------------------------------------------
Statuses ==
  {"created", "restarting", "running", "removing", "paused", "exited", "dead"}

NotFound == "NotFound"

APIError == "APIError"

ReloadAnswers == Statuses \cup {NotFound, APIError}

EmptyPorts == <<>>

PortMappings ==
  { EmptyPorts,
    ("8500/tcp" :> PyList(<<Binding("32769")>>)),
    ("8500/tcp" :> PyList(<<Binding("32769"), Binding("32770")>>))
       @@ ("8501/tcp" :> PyList(<<Binding("32768")>>)),
    ("8500/tcp" :> PyList(<<>>)) @@ ("8501/tcp" :> PyNone),
    ("8501/tcp" :> PyList(<<Binding("32771"), Binding("32768")>>)) }

ContainerPorts == {8500, 8501}

ServingBinaries ==
  [type : {"TensorFlowServing", "Other"}, container_port : ContainerPorts]

\* ---- state --------------------------------------------------------------
VARIABLES
  serving_binary,   \* self._serving_binary
  container,        \* self._container: None or the handle returned by run
  endpoint,         \* self._endpoint: None or a string
  pc,               \* position of the caller's thread inside the runner
  deadline,         \* argument of the WaitUntilRunning call in progress
  startTime,        \* time.time() when that call was made, in ticks
  clock,            \* time.time() as that call reads it, in ticks
  observed,         \* answers of the reload calls of the last call, in order
  ports,            \* self._container.ports as read by the last call
  result,           \* outcome of the last call made (pending while it runs)
  runCalls,         \* engine create+run calls issued
  created,          \* containers the engine created for this runner
  stopInvocations,  \* Stop calls made by the caller
  stopCalls,        \* engine container-stop requests issued
  closeCalls,       \* client close calls issued
  sawRunningResolvable, \* some reload answered `running` with a usable mapping
  waitSucceeded     \* some WaitUntilRunning call has returned normally

vars ==
  << serving_binary, container, endpoint, pc, deadline, startTime, clock,
     observed, ports, result, runCalls, created, stopInvocations, stopCalls,
     closeCalls, sawRunningResolvable, waitSucceeded >>

Outcome(op, outcome, value) == [op |-> op, outcome |-> outcome, value |-> value]

Handle(n) == "container-" \o ToString(n)

PollTicks == _POLLING_INTERVAL_SEC * TicksPerSec

\* ---- _find_host_port ----------------------------------------------------
_find_host_port_last(p, container_port) ==
  LET mappings == DictGet(p, PortKey(container_port)) IN
    IF Truthy(mappings)
      THEN [raised |-> FALSE,
            value |-> mappings.items[Len(mappings.items)].HostPort]
      ELSE [raised |-> TRUE,
            value |-> "No HostPort found for ContainerPort="
                        \o ToString(container_port)]

_find_host_port_default(p, container_port) ==
  LET mappings == DictGet(p, PortKey(container_port)) IN
    IF Truthy(mappings)
      THEN [raised |-> FALSE, value |-> mappings.items[1].HostPort]
      ELSE [raised |-> FALSE, value |-> None]

_find_host_port(p, container_port) ==
  LET mappings == DictGet(p, PortKey(container_port)) IN
    IF Truthy(mappings)
      THEN [raised |-> FALSE,
            value |-> IF "HostPort" \in DOMAIN mappings.items[1]
                        THEN mappings.items[1].HostPort ELSE None]
      ELSE [raised |-> TRUE,
            value |-> "No HostPort found for ContainerPort="
                        \o ToString(container_port)]

\* the mapping has a non-empty binding list under the key of container_port
Resolvable(p, container_port) ==
  /\ PortKey(container_port) \in DOMAIN p
  /\ p[PortKey(container_port)].kind = "list"
  /\ Len(p[PortKey(container_port)].items) >= 1

FirstHostPort(p, container_port) == p[PortKey(container_port)].items[1].HostPort

FormatEndpoint(host_port) == "localhost:" \o host_port

\* ---- __init__ -----------------------------------------------------------
Init ==
  /\ serving_binary \in ServingBinaries
  /\ container = None
  /\ endpoint = None
  /\ pc = "idle"
  /\ deadline = 0
  /\ startTime = 0
  /\ clock = 0
  /\ observed = <<>>
  /\ ports = EmptyPorts
  /\ result = Outcome("__init__", "ok", None)
  /\ runCalls = 0
  /\ created = 0
  /\ stopInvocations = 0
  /\ stopCalls = 0
  /\ closeCalls = 0
  /\ sawRunningResolvable = FALSE
  /\ waitSucceeded = FALSE

\* ---- GetEndpoint --------------------------------------------------------
GetEndpointAssertOff == TRUE

GetEndpointAssert == endpoint # None

GetEndpoint ==
  /\ pc = "idle"
  /\ result' = IF GetEndpointAssert
                 THEN Outcome("GetEndpoint", "ok", endpoint)
                 ELSE Outcome("GetEndpoint", "AssertionError",
                              "Endpoint is not yet created. You should call Start() first.")
  /\ UNCHANGED << serving_binary, container, endpoint, pc, deadline,
                  startTime, clock, observed, ports, runCalls, created,
                  stopInvocations, stopCalls, closeCalls,
                  sawRunningResolvable, waitSucceeded >>

\* ---- Start --------------------------------------------------------------
StartAssertOff == TRUE

StartAssert == container = None

AnyBinaryAccepted == TRUE

IsTensorFlowServing == serving_binary.type = "TensorFlowServing"

Start ==
  /\ pc = "idle"
  /\ IF ~StartAssert
       THEN /\ result' = Outcome("Start", "AssertionError",
                                 "You cannot start model server multiple times.")
            /\ UNCHANGED << container, runCalls, created >>
       ELSE IF ~IsTensorFlowServing
         THEN /\ result' = Outcome("Start", "NotImplementedError",
                                   "Unsupported serving binary " \o serving_binary.type)
              /\ UNCHANGED << container, runCalls, created >>
         ELSE /\ runCalls < MaxRunCalls
              /\ runCalls' = runCalls + 1
              /\ \E launched \in BOOLEAN :
                   IF launched
                     THEN /\ container' = Handle(runCalls + 1)
                          /\ created' = created + 1
                          /\ result' = Outcome("Start", "ok", None)
                     ELSE /\ result' = Outcome("Start", APIError, "run failed")
                          /\ UNCHANGED << container, created >>
  /\ UNCHANGED << serving_binary, endpoint, pc, deadline, startTime, clock,
                  observed, ports, stopInvocations, stopCalls, closeCalls,
                  sawRunningResolvable, waitSucceeded >>

\* ---- WaitUntilRunning ---------------------------------------------------
WaitAssertOff == TRUE

WaitAssert == container # None

\* entry of the call: the assertion, then the thread stands at the loop head.
\* `now` is what time.time() reads when the call is made.
WaitUntilRunning ==
  /\ pc = "idle"
  /\ \E d \in 0 .. MaxDeadline, now \in 0 .. MaxStartTime :
       IF ~WaitAssert
         THEN /\ result' = Outcome("WaitUntilRunning", "AssertionError",
                                   "container has not been started.")
              /\ UNCHANGED << pc, deadline, startTime, clock, observed, ports >>
         ELSE /\ pc' = "loop"
              /\ deadline' = d
              /\ startTime' = now
              /\ clock' = now
              /\ observed' = <<>>
              /\ ports' = EmptyPorts
              /\ result' = Outcome("WaitUntilRunning", "pending", None)
  /\ UNCHANGED << serving_binary, container, endpoint, runCalls, created,
                  stopInvocations, stopCalls, closeCalls,
                  sawRunningResolvable, waitSucceeded >>

\* the call returns or raises: its argument and its readings of the clock
\* go with its frame
FrameDropped ==
  /\ pc' = "idle"
  /\ deadline' = 0
  /\ startTime' = 0
  /\ clock' = 0

LoopConditionInclusive(now, d) == now <= d

LoopConditionLate(now, d) == now < d + PollTicks

\* while time.time() < deadline
LoopCondition(now, d) == now < d

LoopCheck ==
  /\ pc = "loop"
  /\ IF LoopCondition(clock, deadline)
       THEN /\ pc' = "reload"
            /\ UNCHANGED << deadline, startTime, clock, result >>
       ELSE /\ FrameDropped
            /\ result' = Outcome("WaitUntilRunning", "DeadlineExceeded",
                 "Deadline exceeded while waiting for the container to be running.")
  /\ UNCHANGED << serving_binary, container, endpoint, observed, ports,
                  runCalls, created, stopInvocations, stopCalls, closeCalls,
                  sawRunningResolvable, waitSucceeded >>

NotFoundRetried(answer) ==
  IF answer = APIError THEN "propagate"
  ELSE IF answer \in {NotFound, "created"} THEN "sleep"
  ELSE IF answer = "running" THEN "resolve"
  ELSE "abort"

RestartingRetried(answer) ==
  IF answer = NotFound THEN "not_found"
  ELSE IF answer = APIError THEN "propagate"
  ELSE IF answer \in {"created", "restarting"} THEN "sleep"
  ELSE IF answer = "running" THEN "resolve"
  ELSE "abort"

PausedAccepted(answer) ==
  IF answer = NotFound THEN "not_found"
  ELSE IF answer = APIError THEN "propagate"
  ELSE IF answer = "created" THEN "sleep"
  ELSE IF answer \in {"running", "paused"} THEN "resolve"
  ELSE "abort"

\* the try/except around reload and the if-chain on the status
Branch(answer) ==
  IF answer = NotFound THEN "not_found"
  ELSE IF answer = APIError THEN "propagate"
  ELSE IF answer = "created" THEN "sleep"
  ELSE IF answer = "running" THEN "resolve"
  ELSE "abort"

AbortMessage(status) == "Job has been aborted (container status=" \o status \o ")"

NotFoundMessage ==
  "Container not found. Possibly removed after the job has been aborted."

\* one pass of the loop body up to the sleep, the return or the raise
Reload ==
  /\ pc = "reload"
  /\ \E answer \in ReloadAnswers, p \in PortMappings :
       /\ sawRunningResolvable' =
            (sawRunningResolvable
               \/ (answer = "running"
                     /\ Resolvable(p, serving_binary.container_port)))
       /\ observed' = Append(observed, answer)
       /\ CASE Branch(answer) = "not_found" ->
                 /\ FrameDropped
                 /\ result' = Outcome("WaitUntilRunning", "JobAborted", NotFoundMessage)
                 /\ UNCHANGED << endpoint, ports >>
            [] Branch(answer) = "propagate" ->
                 /\ FrameDropped
                 /\ result' = Outcome("WaitUntilRunning", APIError, "reload failed")
                 /\ UNCHANGED << endpoint, ports >>
            [] Branch(answer) = "sleep" ->
                 /\ pc' = "sleep"
                 /\ UNCHANGED << deadline, startTime, clock, endpoint, ports, result >>
            [] Branch(answer) = "resolve" ->
                 LET found == _find_host_port(p, serving_binary.container_port) IN
                   /\ FrameDropped
                   /\ ports' = p
                   /\ IF found.raised
                        THEN /\ result' = Outcome("WaitUntilRunning", "ValueError", found.value)
                             /\ UNCHANGED endpoint
                        ELSE /\ endpoint' = FormatEndpoint(found.value)
                             /\ result' = Outcome("WaitUntilRunning", "ok", None)
            [] Branch(answer) = "abort" ->
                 /\ FrameDropped
                 /\ result' = Outcome("WaitUntilRunning", "JobAborted", AbortMessage(answer))
                 /\ UNCHANGED << endpoint, ports >>
  /\ waitSucceeded' =
       (waitSucceeded \/ result' = Outcome("WaitUntilRunning", "ok", None))
  /\ UNCHANGED << serving_binary, container, runCalls, created,
                  stopInvocations, stopCalls, closeCalls >>

SleepTicksNone(jitter) == jitter

\* time.sleep(_POLLING_INTERVAL_SEC) suspends for at least the interval; the
\* jitter is whatever longer one pass of the loop takes (a late wake-up, the
\* time spent in reload)
SleepTicks(jitter) == PollTicks + jitter

Sleep ==
  /\ pc = "sleep"
  /\ \E jitter \in 0 .. MaxJitter : clock' = clock + SleepTicks(jitter)
  /\ pc' = "loop"
  /\ UNCHANGED << serving_binary, container, endpoint, deadline, startTime,
                  observed, ports, result, runCalls, created, stopInvocations,
                  stopCalls, closeCalls,
                  sawRunningResolvable, waitSucceeded >>

\* ---- Stop ---------------------------------------------------------------
StopGuardAlways == TRUE

\* if self._container:
StopGuard == container # None

StopClearsEndpoint ==
  /\ pc = "idle"
  /\ stopInvocations < MaxStopCalls
  /\ stopInvocations' = stopInvocations + 1
  /\ endpoint' = None
  /\ IF StopGuard
       THEN /\ stopCalls' = stopCalls + 1
            /\ \E answer \in {"ok", NotFound} :
                 IF answer = "ok"
                   THEN /\ closeCalls' = closeCalls + 1
                        /\ result' = Outcome("Stop", "ok", None)
                   ELSE /\ result' = Outcome("Stop", answer, "stop failed")
                        /\ UNCHANGED closeCalls
       ELSE /\ closeCalls' = closeCalls + 1
            /\ result' = Outcome("Stop", "ok", None)
            /\ UNCHANGED stopCalls
  /\ UNCHANGED << serving_binary, container, pc, deadline,
                  startTime, clock, observed, ports, runCalls, created,
                  sawRunningResolvable, waitSucceeded >>

Stop ==
  /\ pc = "idle"
  /\ stopInvocations < MaxStopCalls
  /\ stopInvocations' = stopInvocations + 1
  /\ IF StopGuard
       THEN /\ stopCalls' = stopCalls + 1
            /\ \E answer \in {"ok", NotFound} :
                 IF answer = "ok"
                   THEN /\ closeCalls' = closeCalls + 1
                        /\ result' = Outcome("Stop", "ok", None)
                   ELSE /\ result' = Outcome("Stop", answer, "stop failed")
                        /\ UNCHANGED closeCalls
       ELSE /\ closeCalls' = closeCalls + 1
            /\ result' = Outcome("Stop", "ok", None)
            /\ UNCHANGED stopCalls
  /\ UNCHANGED << serving_binary, container, endpoint, pc, deadline,
                  startTime, clock, observed, ports, runCalls, created,
                  sawRunningResolvable, waitSucceeded >>

Next ==
  \/ Start
  \/ WaitUntilRunning
  \/ LoopCheck
  \/ Reload
  \/ Sleep
  \/ GetEndpoint
  \/ Stop

Spec == Init /\ [][Next]_vars

\* the caller's thread keeps running while it is inside WaitUntilRunning
FairSpec ==
  Spec /\ WF_vars(LoopCheck) /\ WF_vars(Reload) /\ WF_vars(Sleep)

\* ---- _find_host_port on its own -------------------------------------------
HostPorts == {"32768", "32769", "32770"}

BindingLists ==
  UNION { [1 .. k -> {Binding(h) : h \in HostPorts}] : k \in 0 .. MaxBindings }

PortValues == {PyNone} \cup {PyList(l) : l \in BindingLists}

\* every mapping over the keys of the two container ports
AllPortMappings ==
  UNION { [K -> PortValues] : K \in SUBSET {PortKey(c) : c \in ContainerPorts} }

ResolveInit ==
  /\ serving_binary \in ServingBinaries
  /\ ports \in AllPortMappings
  /\ pc = "resolve"
  /\ container = None
  /\ endpoint = None
  /\ deadline = 0
  /\ startTime = 0
  /\ clock = 0
  /\ observed = <<>>
  /\ result = Outcome("__init__", "ok", None)
  /\ runCalls = 0
  /\ created = 0
  /\ stopInvocations = 0
  /\ stopCalls = 0
  /\ closeCalls = 0
  /\ sawRunningResolvable = FALSE
  /\ waitSucceeded = FALSE

\* one call _find_host_port(ports, container_port)
FindHostPort ==
  /\ pc = "resolve"
  /\ pc' = "resolved"
  /\ LET found == _find_host_port(ports, serving_binary.container_port) IN
       result' = IF found.raised
                   THEN Outcome("_find_host_port", "ValueError", found.value)
                   ELSE Outcome("_find_host_port", "ok", found.value)
  /\ UNCHANGED << serving_binary, container, endpoint, deadline, startTime,
                  clock, observed, ports, runCalls, created, stopInvocations,
                  stopCalls, closeCalls, sawRunningResolvable, waitSucceeded >>

ResolveNext == FindHostPort

ResolveSpec == ResolveInit /\ [][ResolveNext]_vars

\* ==== properties =========================================================

declared_port == serving_binary.container_port

OnlyCreated(obs) == \A i \in 1 .. Len(obs) : obs[i] = "created"

CreatedThenRunning(obs) ==
  /\ Len(obs) >= 1
  /\ obs[Len(obs)] = "running"
  /\ \A i \in 1 .. Len(obs) - 1 : obs[i] = "created"

AbortStatuses == {"exited", "dead", "paused", "restarting", "removing"}

CeilDiv(a, b) == (a + b - 1) \div b

\* a step of Reload: one more answer is recorded
ReloadStep == pc = "reload" /\ Len(observed') = Len(observed) + 1

LastObserved == observed'[Len(observed')]

\* C1: Start is single-shot. Once a Start call has succeeded (container
\* handle set), every later Start call fails its assertion, issues no engine
\* create+run call and leaves the handle alone; the runner never has more
\* than one container created.
C1_StartSingleShot ==
  /\ [](created <= 1)
  /\ [][(container # None /\ Start) =>
          /\ result' = Outcome("Start", "AssertionError",
                               "You cannot start model server multiple times.")
          /\ runCalls' = runCalls
          /\ created' = created
          /\ container' = container]_vars

C1_Witness ==
  /\ result.op = "Start"
  /\ result.outcome = "AssertionError"
  /\ container = "container-1"
  /\ runCalls = 1
  /\ created = 1

\* C2: when the reloads of a call answered zero or more `created` and then
\* `running`, and the mapping read has a non-empty binding list for the
\* declared container port, the call returned success, the endpoint is
\* "localhost:" followed by the first binding's host port, and a following
\* GetEndpoint returns exactly that string.
C2_CreatedThenRunningSucceeds ==
  (CreatedThenRunning(observed) /\ Resolvable(ports, declared_port)) =>
     /\ pc = "idle"
     /\ endpoint = "localhost:" \o FirstHostPort(ports, declared_port)
     /\ result.op = "WaitUntilRunning" => result.outcome = "ok"
     /\ result.op = "GetEndpoint" =>
          result = Outcome("GetEndpoint", "ok",
                           "localhost:" \o FirstHostPort(ports, declared_port))

C2_Witness ==
  /\ observed = << "created", "created", "running" >>
  /\ declared_port = 8500
  /\ ports = ("8500/tcp" :> PyList(<< Binding("32769") >>))
  /\ result = Outcome("GetEndpoint", "ok", "localhost:32769")

\* C3: observing `running` with a resolvable port is the only success path.
\* Whenever a WaitUntilRunning call has returned success, the last reload of
\* that call answered `running` and the mapping resolved for the declared
\* port; and the endpoint is set only if some reload answered `running` with a
\* resolvable mapping.
C3_OnlySuccessPath ==
  /\ (pc = "idle" /\ result.op = "WaitUntilRunning" /\ result.outcome = "ok") =>
       /\ Len(observed) >= 1
       /\ observed[Len(observed)] = "running"
       /\ Resolvable(ports, declared_port)
  /\ endpoint # None => sawRunningResolvable

C3_Witness ==
  /\ pc = "idle"
  /\ result = Outcome("WaitUntilRunning", "ok", None)
  /\ observed = << "created", "running" >>
  /\ endpoint = "localhost:32768"
  /\ declared_port = 8501

\* C4: when a reload answers `exited`, `dead`, `paused`, `restarting` or
\* `removing`, the call fails at once with JobAborted carrying exactly that
\* status, the endpoint is left alone, and that call issues no further reload
\* (the aborting answer stays the last one recorded).
C4_AbortStatusFailsImmediately ==
  /\ [](\A i \in 1 .. Len(observed) :
          observed[i] \in AbortStatuses => (i = Len(observed) /\ pc = "idle"))
  /\ [][(ReloadStep /\ LastObserved \in AbortStatuses) =>
          /\ pc' = "idle"
          /\ result' = Outcome("WaitUntilRunning", "JobAborted",
                 "Job has been aborted (container status=" \o LastObserved \o ")")
          /\ endpoint' = endpoint]_vars

C4_Witness ==
  /\ pc = "idle"
  /\ observed = << "created", "restarting" >>
  /\ result = Outcome("WaitUntilRunning", "JobAborted",
                      "Job has been aborted (container status=restarting)")

\* C5: when a reload raises not-found, the call fails at once with JobAborted
\* telling that the container was not found; it is not retried and that call
\* issues no further reload.
C5_NotFoundFailsImmediately ==
  /\ [](\A i \in 1 .. Len(observed) :
          observed[i] = NotFound => (i = Len(observed) /\ pc = "idle"))
  /\ [][(ReloadStep /\ LastObserved = NotFound) =>
          /\ pc' = "idle"
          /\ result' = Outcome("WaitUntilRunning", "JobAborted",
                 "Container not found. Possibly removed after the job has been aborted.")
          /\ endpoint' = endpoint]_vars

C5_Witness ==
  /\ pc = "idle"
  /\ observed = << "created", NotFound >>
  /\ result.op = "WaitUntilRunning"
  /\ result.outcome = "JobAborted"

\* C6: a WaitUntilRunning call made on a started runner when the clock is
\* already at or past the deadline fails at once with DeadlineExceeded,
\* without any reload and without touching the endpoint.
C6_PastDeadlineFailsWithoutReload ==
  /\ [](pc = "reload" => startTime < deadline)
  /\ [][(pc = "loop" /\ observed = << >> /\ startTime >= deadline) =>
          /\ pc' = "idle"
          /\ result'.op = "WaitUntilRunning"
          /\ result'.outcome = "DeadlineExceeded"
          /\ observed' = << >>
          /\ endpoint' = endpoint]_vars

C6_Witness ==
  /\ pc = "idle"
  /\ result.op = "WaitUntilRunning"
  /\ result.outcome = "DeadlineExceeded"
  /\ observed = << >>
  /\ endpoint # None

\* C7: when every reload of a call answers `created`, the call ends with
\* DeadlineExceeded; a call made no later than its deadline issues at most
\* ceil((deadline - startTime) / pollInterval) reloads; and the thread
\* always leaves the loop.
C7_CreatedUntilDeadline ==
  /\ []((pc # "idle" /\ startTime <= deadline) =>
          Len(observed) <= CeilDiv(deadline - startTime, PollTicks))
  /\ []((pc = "idle" /\ result.op = "WaitUntilRunning" /\ container # None
           /\ OnlyCreated(observed)) =>
          result.outcome = "DeadlineExceeded")
  /\ ((pc # "idle") ~> (pc = "idle"))

C7_Witness ==
  /\ pc = "idle"
  /\ result.outcome = "DeadlineExceeded"
  /\ observed = << "created", "created", "created" >>

\* C8: Stop called twice is idempotent: the second Stop call issues no
\* additional engine stop request.
C8_SecondStopNoEngineCall == stopInvocations >= 2 => stopCalls <= 1

\* C9: Stop never propagates a failure of the engine-side stop request.
C9_StopNeverRaises == result.op = "Stop" => result.outcome = "ok"

\* C10: while the container handle is null (Start never invoked, or every
\* Start failed), Stop issues no engine container-stop request and does not
\* fail.
C10_StopUnstarted ==
  container = None =>
    /\ stopCalls = 0
    /\ result.op = "Stop" => result.outcome = "ok"

C10_Witness ==
  /\ container = None
  /\ runCalls = 1
  /\ stopInvocations = 1
  /\ result = Outcome("Stop", "ok", None)

\* C11: host-port resolution is first-wins. For every mapping that has a
\* non-empty binding list under "<P>/tcp", resolving container port P returns
\* the host port of the first binding, whatever the length of the list and
\* whatever else the mapping holds.
C11_FirstBindingWins ==
  (pc = "resolved" /\ Resolvable(ports, declared_port)) =>
     result = Outcome("_find_host_port", "ok",
                      ports[PortKey(declared_port)].items[1].HostPort)

C11_Witness ==
  /\ pc = "resolved"
  /\ declared_port = 8501
  /\ ports = ("8500/tcp" :> PyList(<< Binding("32768") >>))
               @@ ("8501/tcp" :> PyList(<< Binding("32770"), Binding("32769") >>))
  /\ result = Outcome("_find_host_port", "ok", "32770")

\* C12: when a reload answers `running` and the mapping has no entry, an
\* empty list or None for the declared container port, the resolution raises
\* and WaitUntilRunning ends with that error: no retry, no success, endpoint
\* left as it was.
C12_UnresolvablePortRaises ==
  /\ []((pc = "idle" /\ Len(observed) >= 1
          /\ observed[Len(observed)] = "running"
          /\ ~Resolvable(ports, declared_port)) =>
         (result.op = "WaitUntilRunning" => result.outcome = "ValueError"))
  /\ [][(ReloadStep /\ LastObserved = "running"
           /\ ~Resolvable(ports', declared_port)) =>
          /\ pc' = "idle"
          /\ result'.op = "WaitUntilRunning"
          /\ result'.outcome = "ValueError"
          /\ endpoint' = endpoint]_vars

C12_Witness ==
  /\ pc = "idle"
  /\ observed = << "created", "running" >>
  /\ declared_port = 8500
  /\ ports = ("8500/tcp" :> PyList(<< >>)) @@ ("8501/tcp" :> PyNone)
  /\ result.op = "WaitUntilRunning"
  /\ result.outcome = "ValueError"
  /\ endpoint = None

\* C13: GetEndpoint fails its assertion in every state in which no
\* WaitUntilRunning call has succeeded yet, and returns the stored endpoint,
\* never an absent value, in every state after one has.
C13_GetEndpointPrecondition ==
  /\ [](~waitSucceeded => endpoint = None)
  /\ [][GetEndpoint =>
          IF ~waitSucceeded
            THEN /\ result'.op = "GetEndpoint"
                 /\ result'.outcome = "AssertionError"
            ELSE /\ result' = Outcome("GetEndpoint", "ok", endpoint)
                 /\ result'.value # None]_vars

C13_Witness ==
  /\ result.op = "GetEndpoint"
  /\ result.outcome = "AssertionError"
  /\ container # None
  /\ observed = << "created", "created", "created" >>
  /\ ~waitSucceeded

\* C14: on a runner whose serving binary is not TensorFlowServing, Start
\* fails with NotImplementedError, issues no engine create+run call and
\* leaves the container handle null.
C14_UnsupportedBinary ==
  serving_binary.type # "TensorFlowServing" =>
    /\ runCalls = 0
    /\ container = None
    /\ result.op = "Start" => result.outcome = "NotImplementedError"

C14_Witness ==
  /\ serving_binary.type = "Other"
  /\ result = Outcome("Start", "NotImplementedError",
                      "Unsupported serving binary Other")
  /\ runCalls = 0
  /\ container = None

\* C15: the endpoint is set at most once: once it is set, no later operation
\* assigns it again or changes its value.
C15_EndpointSetOnce == [][endpoint # None => endpoint' = endpoint]_vars

\* C16: the container handle is null until a Start call succeeds; once set,
\* no operation replaces it or resets it to null.
C16_HandleImmutable ==
  /\ [](container # None => created >= 1)
  /\ [][(container = None /\ container' # None) =>
          (Start /\ result' = Outcome("Start", "ok", None))]_vars
  /\ [][container # None => container' = container]_vars

C16_Witness ==
  /\ container = "container-1"
  /\ stopInvocations = 2
  /\ result.op = "Start"
  /\ result.outcome = "AssertionError"
  /\ waitSucceeded

\* C17: every Stop call releases the client connection: each Stop call made
\* so far has closed the client.
C17_EveryStopCloses == closeCalls = stopInvocations

\* C18: only a WaitUntilRunning call that returns normally changes the
\* endpoint; Start, GetEndpoint, Stop and every failing WaitUntilRunning
\* leave it as it was, and GetEndpoint keeps returning a set endpoint.
C18_OnlySuccessChangesEndpoint ==
  /\ [][endpoint' # endpoint =>
          (ReloadStep /\ result' = Outcome("WaitUntilRunning", "ok", None))]_vars
  /\ [][(GetEndpoint /\ endpoint # None) =>
          (result' = Outcome("GetEndpoint", "ok", endpoint)
             /\ endpoint' = endpoint)]_vars

C18_Witness ==
  /\ endpoint = "localhost:32769"
  /\ observed = << "exited" >>
  /\ stopInvocations = 1
  /\ result = Outcome("GetEndpoint", "ok", "localhost:32769")

C20_DeadlineCheckedAtLoopHead ==
  /\ [](pc = "reload" => clock < deadline)
  /\ [][(pc = "loop" /\ pc' = "idle" /\ startTime < deadline
           /\ clock = startTime + PollTicks * Len(observed)) =>
          /\ result'.outcome = "DeadlineExceeded"
          /\ deadline <= clock
          /\ clock < deadline + PollTicks]_vars

C20_Witness ==
  /\ pc = "loop"
  /\ Len(observed) = 3
  /\ clock = startTime + PollTicks * 3
  /\ clock = deadline + 1

====
